---- MODULE Spec2Model ----
(***************************************************************************)
(* Birthday Card Studio (client/app/page.tsx): the composition store of    *)
(* the Home component (photo slots, per-slot upload flags, text stickers,  *)
(* the error line, the export flag), the asynchronous handleUpload and     *)
(* handleDownload handlers cut at their await points, and the drag         *)
(* controllers of the preview.                                             *)
(*                                                                         *)
(* Indices are 1-based here and 0-based in the source: slot i of the model *)
(* is photos[i-1] of the source.                                           *)
(*                                                                         *)
(* The photo side (photos, uploading, uploads in flight, photo drags) and  *)
(* the sticker/export side (stickers, downloading) live in separate        *)
(* useState cells and no handler of one side reads or writes a cell of the *)
(* other, so each side is explored by its own specification: Spec for the  *)
(* photo side, SpecCard for stickers and export.                           *)
(***************************************************************************)
EXTENDS Integers, Sequences, FiniteSets, TLC

VARIABLES
    photos,            \* useState<(PhotoSlot | null)[]>        (page.tsx:282)
    uploading,         \* useState<boolean[]>                   (page.tsx:286)
    inflight,          \* handleUpload calls suspended at an await, in start order
    dragging,          \* DraggableImage dragging state, one per preview element
    imagekitPublicKey, \* NEXT_PUBLIC_IMAGEKIT_PUBLIC_KEY ?? "" (page.tsx:341)
    apiUrlEnv,         \* process.env.NEXT_PUBLIC_API_URL       (page.tsx:340)
    stickers,          \* useState<TextSticker[]>               (page.tsx:288)
    textDragging,      \* DraggableText dragging state, one per sticker
    now,               \* the clock read by Date.now()
    issued,            \* history: every sticker id handed out so far
    error,             \* useState<string | null>               (page.tsx:289)
    downloading,       \* useState(false)                       (page.tsx:290)
    rasterizing,       \* html2canvas calls that have not settled yet
    recipient,         \* useState("")                         (page.tsx:276)
    layoutId,          \* useState(layouts[0].id)              (page.tsx:280)
    cardSizeId,        \* useState(cardSizes[0].id)            (page.tsx:281)
    captured,          \* the closures of the suspended handleDownload calls
    last               \* history: the handler step taken last

vars == <<photos, uploading, inflight, dragging, imagekitPublicKey, apiUrlEnv,
          stickers, textDragging, now, issued, error, downloading, rasterizing,
          recipient, layoutId, cardSizeId, captured, last>>

photoVars == <<photos, uploading, inflight, dragging>>
cardVars  == <<stickers, textDragging, now, issued, downloading, rasterizing>>
config    == <<imagekitPublicKey, apiUrlEnv>>
form      == <<recipient, layoutId, cardSizeId>>
aside     == <<config, form, captured>>

(***************************************************************************)
(* Bounds of the exploration.                                              *)
(***************************************************************************)
MaxSlots == 3        \* "Add photo" is not offered beyond this many slots
MaxInflight == 2     \* handleUpload calls in flight together
MaxClock == 1        \* Date.now() takes values 0..MaxClock
MaxCount == 60       \* getPhotoGrid is applied to the counts 0..MaxCount

(***************************************************************************)
(* Program constants.                                                      *)
(***************************************************************************)
MinSlots == 2        \* handleRemove: prev.length <= 2
MaxStickers == 3     \* disabled={stickers.length >= 3}

Null == [null |-> TRUE]            \* the null of an empty slot
NoError == "null"                  \* the null of the error line

\* File objects the user can pick, each known by a handle, and their
\* file.name, file.size and file.type
FileA == "fileA"
FileB == "fileB"
Files == {FileA, FileB}
NoFile == "none"
fileName(file) == IF file = FileA THEN "A.png" ELSE "B.png"
fileSize(file) == IF file = FileA THEN 2048 ELSE 4096
fileType(file) == IF file = FileA THEN "image/png" ELSE "image/jpeg"
PublicKeys == {"", "pk"}           \* builds without and with the public key
RandVals == {"a3f", "9c1"}         \* Math.random().toString(16).slice(2)

MissingKeyMessage ==
    "Missing ImageKit public key. Add NEXT_PUBLIC_IMAGEKIT_PUBLIC_KEY in client .env.local."
AuthFailedMessage == "ImageKit auth failed. Is the server running?"

(***************************************************************************)
(* Pure helpers.                                                           *)
(***************************************************************************)
\* prev.map((v, slotIndex) => slotIndex === index ? value : v)
MapAt(s, index, value) ==
    [j \in 1..Len(s) |-> IF j = index THEN value ELSE s[j]]

RECURSIVE FilterFrom(_, _, _)
FilterFrom(s, index, j) ==
    IF j > Len(s) THEN <<>>
    ELSE (IF j # index THEN <<s[j]>> ELSE <<>>) \o FilterFrom(s, index, j + 1)

\* prev.filter((_, slotIndex) => slotIndex !== index)
FilterOut(s, index) == FilterFrom(s, index, 1)

\* createSlot(url, file)
createSlot(url, file) ==
    [url |-> url, name |-> fileName(file), size |-> fileSize(file), type |-> fileType(file),
     position |-> [x |-> 50, y |-> 50]]

\* no other call to the same index has resolved meanwhile
NoRace == [by |-> "no", file |-> NoFile]

\* the history record of the step taken last
Step(op, index, n) ==
    [op |-> op, index |-> index, n |-> n, file |-> NoFile, url |-> "",
     stale |-> FALSE, raced |-> NoRace, cur |-> 0, reused |-> FALSE]

(***************************************************************************)
(* Composition store, photo side.  Every handler is written as the update *)
(* function it passes to the state setter, applied to the current value.   *)
(***************************************************************************)
\* variants of removePhotos used to test the properties below
removePhotosNoFloor(prev, index) == FilterOut(prev, index)

removePhotosDropsLast(prev, index) ==
    IF Len(prev) <= MinSlots
    THEN MapAt(prev, index, Null)
    ELSE SubSeq(prev, 1, Len(prev) - 1)

removePhotosClearsBoth(prev, index) ==
    IF Len(prev) <= MinSlots
    THEN [j \in 1..Len(prev) |-> Null]
    ELSE FilterOut(prev, index)

\* handleRemove, setPhotos updater
removePhotos(prev, index) ==
    IF Len(prev) <= MinSlots
    THEN MapAt(prev, index, Null)
    ELSE FilterOut(prev, index)

\* variant of removeUploading: the flag is cleared, never taken out
removeUploadingKeepsLength(prev, index) == MapAt(prev, index, FALSE)

\* handleRemove, setUploading updater
removeUploading(prev, index) ==
    IF Len(prev) <= MinSlots
    THEN MapAt(prev, index, FALSE)
    ELSE FilterOut(prev, index)

\* variant of swapPhotos: the first slot is overwritten before it is saved
swapPhotosNoTemp(prev) ==
    IF Len(prev) < 2 THEN prev
    ELSE [j \in 1..Len(prev) |-> IF j = 1 THEN prev[2] ELSE prev[j]]

\* variant of swapPhotos: the whole list is reversed
swapPhotosReverse(prev) == [j \in 1..Len(prev) |-> prev[Len(prev) + 1 - j]]

\* swapPhotos, setPhotos updater
swapPhotos(prev) ==
    IF Len(prev) < 2 THEN prev
    ELSE [j \in 1..Len(prev) |->
            IF j = 1 THEN prev[2] ELSE IF j = 2 THEN prev[1] ELSE prev[j]]

\* variant of updatePhotoPosition: every filled slot takes the position
updatePhotoPositionAll(prev, index, position) ==
    [j \in 1..Len(prev) |->
        IF prev[j] # Null THEN [prev[j] EXCEPT !.position = position] ELSE prev[j]]

\* updatePhotoPosition, setPhotos updater
updatePhotoPosition(prev, index, position) ==
    [j \in 1..Len(prev) |->
        IF j = index /\ prev[j] # Null
        THEN [prev[j] EXCEPT !.position = position]
        ELSE prev[j]]

\* variant of fillSlot: a replaced image inherits the position of the old one
fillSlotKeepsPosition(prev, index, url, file) ==
    [j \in 1..Len(prev) |->
        IF j # index THEN prev[j]
        ELSE IF prev[j] = Null THEN createSlot(url, file)
        ELSE [createSlot(url, file) EXCEPT !.position = prev[j].position]]

\* variant of fillSlot: an already filled slot keeps its image
fillSlotIfEmpty(prev, index, url, file) ==
    [j \in 1..Len(prev) |->
        IF j = index /\ prev[j] = Null THEN createSlot(url, file) ELSE prev[j]]

\* handleUpload on success, setPhotos updater
fillSlot(prev, index, url, file) == MapAt(prev, index, createSlot(url, file))

\* variant of failSlot: a failed upload empties the slot
failSlotClears(prev, index) == MapAt(prev, index, Null)

\* handleUpload, catch block: the slots are not touched
failSlot(prev, index) == prev

\* handleUpload, finally block, setUploading updater
finishUploading(prev, index) == MapAt(prev, index, FALSE)

\* The preview renders one DraggableImage per slot, keyed by index, so the
\* dragging state of element k survives while index k exists: a shorter list
\* unmounts the elements of the highest indices, a longer one mounts idle ones.
remount(prevDragging, n) ==
    [j \in 1..n |-> IF j <= Len(prevDragging) THEN prevDragging[j] ELSE FALSE]

(***************************************************************************)
(* History kept with each call in flight (not program state): cur is the   *)
(* index at which the slot the call was started on sits now (0 once that   *)
(* slot is deleted), cleared says that slot was emptied by a two-slot      *)
(* remove, removed says a remove has touched the slot or one before it,    *)
(* quiet says no remove/swap ran since the call started, raced says        *)
(* another call to the same index resolved successfully meanwhile ("later" *)
(* if that call was started later than this one, "earlier" otherwise) and  *)
(* which file it carried.                                                  *)
(***************************************************************************)
afterRemove(u, index, n) ==
    IF n <= MinSlots
    THEN [u EXCEPT !.quiet = FALSE, !.raced = NoRace,
                   !.cleared = @ \/ (u.cur = index),
                   !.removed = @ \/ (u.cur = index)]
    ELSE [u EXCEPT !.quiet = FALSE, !.raced = NoRace,
                   !.cur = IF u.cur = index THEN 0
                           ELSE IF u.cur > index THEN u.cur - 1 ELSE u.cur,
                   !.removed = @ \/ (u.cur >= index /\ u.cur # 0)]

afterSwap(u, n) ==
    IF n < 2 THEN u
    ELSE [u EXCEPT !.quiet = FALSE, !.raced = NoRace,
                   !.cur = IF u.cur = 1 THEN 2 ELSE IF u.cur = 2 THEN 1 ELSE u.cur]

afterResolve(u, j, k, ok) ==
    IF ok /\ u.index = inflight[k].index /\ u.quiet /\ inflight[k].quiet
    THEN [u EXCEPT !.raced = [by |-> IF k > j THEN "later" ELSE "earlier",
                                    file |-> inflight[k].file]]
    ELSE u

\* the index of the call no longer denotes the slot it was started on,
\* because of a remove
Stale(u) == u.removed /\ (u.cur # u.index \/ u.cleared)

Without(s, k) == [j \in 1..(Len(s) - 1) |-> IF j < k THEN s[j] ELSE s[j + 1]]

Settled(k, ok) ==
    Without([j \in 1..Len(inflight) |-> afterResolve(inflight[j], j, k, ok)], k)

StepOf(op, u) ==
    [Step(op, u.index, Len(photos)) EXCEPT
        !.file = u.file, !.stale = Stale(u), !.cur = u.cur,
        !.raced = IF u.quiet THEN u.raced ELSE NoRace]

(***************************************************************************)
(* Photo-side handlers.                                                    *)
(***************************************************************************)
\* "Add photo" button
handleAddPhotoSlot ==
    /\ Len(photos) < MaxSlots
    /\ photos' = Append(photos, Null)
    /\ uploading' = Append(uploading, FALSE)
    /\ dragging' = remount(dragging, Len(photos) + 1)
    /\ last' = Step("addSlot", Len(photos) + 1, Len(photos))
    /\ UNCHANGED <<inflight, aside, error>>
    /\ UNCHANGED cardVars

\* "Remove" / "Remove slot" button, rendered only for a filled slot; held
\* tells whether the frame of that slot was being dragged at that moment
handleRemove(index) ==
    /\ index \in 1..Len(photos)
    /\ photos[index] # Null
    /\ photos' = removePhotos(photos, index)
    /\ uploading' = removeUploading(uploading, index)
    /\ dragging' = remount(dragging, Len(removePhotos(photos, index)))
    /\ inflight' = [j \in 1..Len(inflight) |->
                        afterRemove(inflight[j], index, Len(photos))]
    /\ last' = [held |-> dragging[index]] @@ Step("remove", index, Len(photos))
    /\ UNCHANGED <<aside, error>>
    /\ UNCHANGED cardVars

\* the step of a swap: the slots before it, and the slots before the swap that
\* came right before it, if one did
SwapStep(op) ==
    [before |-> photos,
     twice |-> (last.op = op),
     origin |-> IF last.op = op THEN last.before ELSE photos]
    @@ Step(op, 0, Len(photos))

\* "Swap first two photos" button (disabled={photos.length < 2})
swapPhotosClick ==
    /\ ~(Len(photos) < 2)
    /\ photos' = swapPhotos(photos)
    /\ inflight' = [j \in 1..Len(inflight) |-> afterSwap(inflight[j], Len(photos))]
    /\ last' = Step("swap", 0, Len(photos))
    /\ UNCHANGED <<uploading, dragging, aside, error>>
    /\ UNCHANGED cardVars

\* swapPhotos applied to the slots as they are, whatever their number
applySwapPhotos ==
    /\ photos' = swapPhotos(photos)
    /\ last' = SwapStep("swapPhotos")
    /\ UNCHANGED <<uploading, inflight, dragging, aside, error>>
    /\ UNCHANGED cardVars

\* const apiUrl = process.env.NEXT_PUBLIC_API_URL ?? "http://localhost:4000":
\* ?? replaces only an absent value, an empty string is kept
DefaultApiUrl == "http://localhost:4000"
apiUrl == IF apiUrlEnv = "undefined" THEN DefaultApiUrl ELSE apiUrlEnv

\* the two requests of handleUpload
\* variant of authRequest: the file is posted without asking the relay
authRequestSkipped == [base |-> "https://upload.imagekit.io", path |-> "/api/v1/files/upload"]

authRequest == [base |-> apiUrl, path |-> "/auth"]
uploadRequest == [base |-> "https://upload.imagekit.io", path |-> "/api/v1/files/upload"]

\* variant of keyMissing: the key is never looked at
keyMissingNever(key) == FALSE

\* if (!imagekitPublicKey): absent (defaulted to "") or empty
keyMissing(key) == key = ""

\* variant of setError: a message already shown is kept
setErrorKeepsFirst(prev, value) == IF prev = NoError THEN value ELSE prev

\* setError(value): the one error line takes the value
setError(prev, value) == value

\* the step of a failure: the message thrown, the response it came from and
\* the error line before it
FailureStep(step, message, response) ==
    [message |-> message, response |-> response, replaced |-> error] @@ step

\* handleUpload up to the public-key check, key missing
handleUploadNoKey(index, file) ==
    /\ index \in 1..Len(photos)
    /\ keyMissing(imagekitPublicKey)
    /\ error' = setError(setError(error, NoError), MissingKeyMessage)
    /\ last' = FailureStep([Step("uploadNoKey", index, Len(photos)) EXCEPT !.file = file],
                           MissingKeyMessage, [ok |-> FALSE])
    /\ UNCHANGED <<photos, uploading, inflight, dragging, aside>>
    /\ UNCHANGED cardVars

\* handleUpload up to its first await: fetch(`${apiUrl}/auth`) is sent.
\* pace is the user's side: "serial" picks a file only while no upload is in
\* flight, "overlap" also while others are.
handleUploadBegin(index, file, pace) ==
    /\ index \in 1..Len(photos)
    /\ ~keyMissing(imagekitPublicKey)
    /\ IF pace = "serial" THEN inflight = <<>> ELSE Len(inflight) < MaxInflight
    /\ error' = setError(error, NoError)
    /\ uploading' = MapAt(uploading, index, TRUE)
    /\ inflight' = Append(inflight,
            [index |-> index, file |-> file, pc |-> "auth", cur |-> index,
             sent |-> <<authRequest>>,
             cleared |-> FALSE, removed |-> FALSE, quiet |-> TRUE, raced |-> NoRace])
    /\ last' = [request |-> authRequest]
                @@ [Step("uploadBegin", index, Len(photos)) EXCEPT
                        !.file = file, !.cur = index]
    /\ UNCHANGED <<photos, dragging, aside>>
    /\ UNCHANGED cardVars

\* the auth relay answers 2xx: the upload request is sent
authOk(k) ==
    /\ k \in 1..Len(inflight)
    /\ inflight[k].pc = "auth"
    /\ inflight' = [inflight EXCEPT ![k].pc = "upload",
                                    ![k].sent = Append(@, uploadRequest)]
    /\ last' = [request |-> uploadRequest] @@ StepOf("authOk", inflight[k])
    /\ UNCHANGED <<photos, uploading, dragging, aside, error>>
    /\ UNCHANGED cardVars

\* catch and finally of handleUpload, entered from either await
uploadThrows(k, op, message, response) ==
    /\ photos' = failSlot(photos, inflight[k].index)
    /\ error' = setError(error, message)
    /\ uploading' = finishUploading(uploading, inflight[k].index)
    /\ inflight' = Settled(k, FALSE)
    /\ last' = [sent |-> inflight[k].sent]
                @@ FailureStep(StepOf(op, inflight[k]), message, response)
    /\ UNCHANGED <<dragging, aside>>
    /\ UNCHANGED cardVars

\* the auth relay answers non-2xx, or the fetch rejects
authFail(k, message) ==
    /\ k \in 1..Len(inflight)
    /\ inflight[k].pc = "auth"
    /\ uploadThrows(k, "authFail", message, [ok |-> FALSE])

\* throw new Error(uploadData?.message ?? "Upload failed.")
uploadErrorMessage(uploadData) ==
    IF "message" \in DOMAIN uploadData THEN uploadData.message ELSE "Upload failed."

\* the upload service answers non-2xx with the body uploadData
uploadFail(k, uploadData) ==
    /\ k \in 1..Len(inflight)
    /\ inflight[k].pc = "upload"
    /\ uploadThrows(k, "uploadFail", uploadErrorMessage(uploadData), uploadData)

\* the slot at the index holds a photo that is not at the centre
Moved(prev, index) ==
    /\ index \in 1..Len(prev)
    /\ prev[index] # Null
    /\ prev[index].position # [x |-> 50, y |-> 50]

\* the upload service answers 2xx with uploadData.url
uploadOk(k, url) ==
    /\ k \in 1..Len(inflight)
    /\ inflight[k].pc = "upload"
    /\ photos' = fillSlot(photos, inflight[k].index, url, inflight[k].file)
    /\ uploading' = finishUploading(uploading, inflight[k].index)
    /\ inflight' = Settled(k, TRUE)
    /\ last' = [moved |-> Moved(photos, inflight[k].index), sent |-> inflight[k].sent]
                @@ [StepOf("uploadOk", inflight[k]) EXCEPT !.url = url]
    /\ UNCHANGED <<dragging, aside, error>>
    /\ UNCHANGED cardVars

(***************************************************************************)
(* Coordinate mapping of the drag controllers.  JavaScript numbers are     *)
(* modelled as integers, with NaN and the infinities that a division by a  *)
(* zero width produces; the pointer and rectangle values used are such     *)
(* that every other quotient is exact.                                     *)
(***************************************************************************)
NaN == 0 - 999
Infinity == 100000

\* (delta / size) * 100
percent(delta, size) ==
    IF size = 0
    THEN (IF delta = 0 THEN NaN ELSE IF delta > 0 THEN Infinity ELSE 0 - Infinity)
    ELSE (delta * 100) \div size

mathMax(a, b) == IF a = NaN \/ b = NaN THEN NaN ELSE IF a > b THEN a ELSE b
mathMin(a, b) == IF a = NaN \/ b = NaN THEN NaN ELSE IF a < b THEN a ELSE b

\* variant of clamp: the value is passed through
clampNone(value, min, max) == value

\* clamp(value, min, max)
clamp(value, min, max) == mathMin(max, mathMax(min, value))

\* variant of imagePosition: the pointer is not looked at
imagePositionCentre(event, rect) == [x |-> 50, y |-> 50]

\* DraggableImage.updatePosition: the position handed to onPositionChange
imagePosition(event, rect) ==
    [x |-> clamp(percent(event.clientX - rect.left, rect.width), 0, 100),
     y |-> clamp(percent(event.clientY - rect.top, rect.height), 0, 100)]

Rects == {[left |-> 10, top |-> 10, width |-> 200, height |-> 200]}

(***************************************************************************)
(* The photo frames of the preview, in the order they are rendered: the    *)
(* slot each DraggableImage is given, its key, and the slot index (from 0, *)
(* as in the source) its onPositionChange writes to.                       *)
(***************************************************************************)
\* photos.slice(1)
secondaryPhotos(list) == SubSeq(list, 2, Len(list))

\* layoutId === "duo": photos.map((slot, index) => <DraggableImage ... />)
duoFrames(list) ==
    [k \in 1..Len(list) |->
        [zone |-> "grid", key |-> k - 1, slot |-> list[k], writes |-> k - 1]]

\* variant of focusFrames: the secondary frames write to their own index
focusFramesUnshifted(list) ==
    << [zone |-> "hero", key |-> 0,
        slot |-> IF Len(list) >= 1 THEN list[1] ELSE Null, writes |-> 0] >>
    \o [k \in 1..Len(secondaryPhotos(list)) |->
           [zone |-> "secondary", key |-> k - 1,
            slot |-> secondaryPhotos(list)[k], writes |-> k - 1]]

\* the other layout: the hero frame (photos[0] ?? null), then
\* secondaryPhotos.map((slot, index) => <DraggableImage ... />)
focusFrames(list) ==
    << [zone |-> "hero", key |-> 0,
        slot |-> IF Len(list) >= 1 THEN list[1] ELSE Null, writes |-> 0] >>
    \o [k \in 1..Len(secondaryPhotos(list)) |->
           [zone |-> "secondary", key |-> k - 1,
            slot |-> secondaryPhotos(list)[k], writes |-> (k - 1) + 1]]

previewFrames(layout, list) ==
    IF layout = "duo" THEN duoFrames(list) ELSE focusFrames(list)

\* frame k of the preview as it is rendered now
Frame(k) == previewFrames(layoutId, photos)[k]

(***************************************************************************)
(* Drag controller of frame k of the preview (DraggableImage).             *)
(***************************************************************************)
\* the step of a pointer event: which element, where, against which rectangle
PointerStep(op, k, n, event, rect) ==
    [event |-> event, rect |-> rect] @@ Step(op, k, n)

\* handlePointerDown: if (!slot) return
downAccepted(slot) == slot # Null

\* variant of moveAccepted: the dragging state is not looked at
moveAcceptedIdle(slot, isDragging) == slot # Null

\* handlePointerMove: if (!slot || !dragging) return
moveAccepted(slot, isDragging) == slot # Null /\ isDragging

imagePointerDown(k, event, rect) ==
    /\ k \in 1..Len(previewFrames(layoutId, photos))
    /\ downAccepted(Frame(k).slot)
    /\ dragging' = [dragging EXCEPT ![k] = TRUE]
    /\ photos' = updatePhotoPosition(photos, Frame(k).writes + 1, imagePosition(event, rect))
    /\ last' = PointerStep("pointerDown", k, Len(photos), event, rect)
    /\ UNCHANGED <<uploading, inflight, aside, error>>
    /\ UNCHANGED cardVars

\* handlePointerDown on the frame of an empty slot: returns at once
imagePointerDownEmpty(k, event, rect) ==
    /\ k \in 1..Len(previewFrames(layoutId, photos))
    /\ ~downAccepted(Frame(k).slot)
    /\ last' = PointerStep("pointerDownEmpty", k, Len(photos), event, rect)
    /\ UNCHANGED <<photos, uploading, inflight, dragging, aside, error>>
    /\ UNCHANGED cardVars

imagePointerMove(k, event, rect) ==
    /\ k \in 1..Len(previewFrames(layoutId, photos))
    /\ moveAccepted(Frame(k).slot, dragging[k])
    /\ photos' = updatePhotoPosition(photos, Frame(k).writes + 1, imagePosition(event, rect))
    /\ last' = PointerStep("pointerMove", k, Len(photos), event, rect)
    /\ UNCHANGED <<uploading, inflight, dragging, aside, error>>
    /\ UNCHANGED cardVars

\* handlePointerMove over an empty frame or while idle: returns at once
imagePointerMoveIgnored(k, event, rect) ==
    /\ k \in 1..Len(previewFrames(layoutId, photos))
    /\ ~moveAccepted(Frame(k).slot, dragging[k])
    /\ last' = PointerStep("pointerMoveIgnored", k, Len(photos), event, rect)
    /\ UNCHANGED <<photos, uploading, inflight, dragging, aside, error>>
    /\ UNCHANGED cardVars

\* onPointerUp and onPointerCancel
imagePointerUp(k) ==
    /\ k \in 1..Len(previewFrames(layoutId, photos))
    /\ dragging[k]
    /\ dragging' = [dragging EXCEPT ![k] = FALSE]
    /\ last' = Step("pointerUp", k, Len(photos))
    /\ UNCHANGED <<photos, uploading, inflight, aside, error>>
    /\ UNCHANGED cardVars

(***************************************************************************)
(* Sticker side.                                                           *)
(***************************************************************************)
\* createSticker(): the id is `sticker-${Date.now()}-${Math.random()...}`,
\* kept as the pair of its two variable parts
createSticker(text, time, random) ==
    [id |-> <<time, random>>, text |-> text,
     position |-> [x |-> 70, y |-> 20], size |-> 18, tone |-> "accent"]

\* { ...sticker, ...updates }
merge(sticker, updates) ==
    [f \in DOMAIN sticker |->
        IF f \in DOMAIN updates THEN updates[f] ELSE sticker[f]]

\* updateSticker, setStickers updater
updateSticker(prev, id, updates) ==
    [j \in 1..Len(prev) |->
        IF prev[j].id = id THEN merge(prev[j], updates) ELSE prev[j]]

RECURSIVE filterId(_, _)
\* handleRemoveSticker, setStickers updater
filterId(prev, id) ==
    IF prev = <<>> THEN <<>>
    ELSE (IF Head(prev).id # id THEN <<Head(prev)>> ELSE <<>>)
         \o filterId(Tail(prev), id)

RECURSIVE unmountId(_, _, _)
\* the DraggableText elements are keyed by sticker.id: the controllers of the
\* stickers that stay keep their state
unmountId(prev, prevDragging, id) ==
    IF prev = <<>> THEN <<>>
    ELSE (IF Head(prev).id # id THEN <<Head(prevDragging)>> ELSE <<>>)
         \o unmountId(Tail(prev), Tail(prevDragging), id)

\* variant of addStickerDisabled: the button is never disabled
addStickerNeverDisabled(prev) == FALSE

\* the "Add text sticker" button is disabled at three stickers
addStickerDisabled(prev) == Len(prev) >= MaxStickers

\* variant of addSticker: the new sticker is put first
addStickerPrepends(prev, time, random) ==
    <<createSticker("Your text", time, random)>> \o prev

\* handleAddSticker, setStickers updater
addSticker(prev, time, random) ==
    Append(prev, createSticker("Your text", time, random))

\* a click on "Add text sticker"; Math.random() yields random
addStickerClick(random) ==
    /\ IF addStickerDisabled(stickers)
       THEN /\ UNCHANGED <<stickers, textDragging, issued>>
            /\ last' = Step("addStickerRefused", 0, Len(stickers))
       ELSE /\ stickers' = addSticker(stickers, now, random)
            /\ textDragging' = Append(textDragging, FALSE)
            /\ issued' = issued \cup {<<now, random>>}
            /\ last' = [Step("addSticker", Len(stickers) + 1, Len(stickers))
                            EXCEPT !.reused = <<now, random>> \in issued]
    /\ UNCHANGED <<now, downloading, rasterizing, aside, error>>
    /\ UNCHANGED photoVars

\* the "Remove" button of sticker j
handleRemoveSticker(j) ==
    /\ j \in 1..Len(stickers)
    /\ stickers' = filterId(stickers, stickers[j].id)
    /\ textDragging' = unmountId(stickers, textDragging, stickers[j].id)
    /\ last' = Step("removeSticker", j, Len(stickers))
    /\ UNCHANGED <<now, issued, downloading, rasterizing, aside, error>>
    /\ UNCHANGED photoVars

\* the text input of sticker j (size slider and tone buttons go the same way)
editSticker(j, updates) ==
    /\ j \in 1..Len(stickers)
    /\ stickers' = updateSticker(stickers, stickers[j].id, updates)
    /\ last' = [updates |-> updates] @@ Step("updateSticker", j, Len(stickers))
    /\ UNCHANGED <<textDragging, now, issued, downloading, rasterizing, aside, error>>
    /\ UNCHANGED photoVars

(***************************************************************************)
(* Drag controller of sticker j (DraggableText); the container is the card. *)
(***************************************************************************)
\* DraggableText.updatePosition: the position handed to onPositionChange
textPosition(event, rect) ==
    [x |-> clamp(percent(event.clientX - rect.left, rect.width), 0, 100),
     y |-> clamp(percent(event.clientY - rect.top, rect.height), 0, 100)]

\* onPositionChange of sticker j: updateSticker(sticker.id, { position })
textPointerDown(j, event, rect) ==
    /\ j \in 1..Len(stickers)
    /\ textDragging' = [textDragging EXCEPT ![j] = TRUE]
    /\ stickers' = updateSticker(stickers, stickers[j].id,
                                 [position |-> textPosition(event, rect)])
    /\ last' = PointerStep("textPointerDown", j, Len(stickers), event, rect)
    /\ UNCHANGED <<now, issued, downloading, rasterizing, aside, error>>
    /\ UNCHANGED photoVars

\* variant of textMoveAccepted: the dragging state is not looked at
textMoveAcceptedIdle(isDragging) == TRUE

\* handlePointerMove: if (!dragging) return
textMoveAccepted(isDragging) == isDragging

textPointerMove(j, event, rect) ==
    /\ j \in 1..Len(stickers)
    /\ textMoveAccepted(textDragging[j])
    /\ stickers' = updateSticker(stickers, stickers[j].id,
                                 [position |-> textPosition(event, rect)])
    /\ last' = PointerStep("textPointerMove", j, Len(stickers), event, rect)
    /\ UNCHANGED <<textDragging, now, issued, downloading, rasterizing, aside, error>>
    /\ UNCHANGED photoVars

\* handlePointerMove while idle: returns at once
textPointerMoveIgnored(j, event, rect) ==
    /\ j \in 1..Len(stickers)
    /\ ~textMoveAccepted(textDragging[j])
    /\ last' = PointerStep("textPointerMoveIgnored", j, Len(stickers), event, rect)
    /\ UNCHANGED <<stickers, textDragging, now, issued, downloading, rasterizing,
                   aside, error>>
    /\ UNCHANGED photoVars

\* onPointerUp and onPointerCancel
textPointerUp(j) ==
    /\ j \in 1..Len(stickers)
    /\ textDragging[j]
    /\ textDragging' = [textDragging EXCEPT ![j] = FALSE]
    /\ last' = Step("textPointerUp", j, Len(stickers))
    /\ UNCHANGED <<stickers, now, issued, downloading, rasterizing, aside, error>>
    /\ UNCHANGED photoVars

\* time passes between two events
Tick ==
    /\ now < MaxClock
    /\ now' = now + 1
    /\ last' = Step("tick", 0, 0)
    /\ UNCHANGED <<stickers, textDragging, issued, downloading, rasterizing, aside, error>>
    /\ UNCHANGED photoVars

(***************************************************************************)
(* Export.                                                                 *)
(***************************************************************************)
\* variant of downloadDisabled: the button is never disabled
downloadNeverDisabled == FALSE

\* the "Download card" button: disabled={downloading}
downloadDisabled == downloading

\* the card sizes on offer; downloadScale is kept as <<numerator, denominator>>
cardSizes ==
    << [id |-> "standard", previewMaxWidth |-> 520, downloadScale |-> <<2, 1>>],
       [id |-> "large",    previewMaxWidth |-> 620, downloadScale |-> <<5, 2>>],
       [id |-> "xlarge",   previewMaxWidth |-> 720, downloadScale |-> <<3, 1>> ] >>

CardSizeIds == {cardSizes[j].id : j \in 1..Len(cardSizes)}
LayoutIds   == {"duo", "focus"}

cardSizeLargest(id) == cardSizes[Len(cardSizes)]

\* cardSizes.find((size) => size.id === cardSizeId) ?? cardSizes[0]
cardSize(id) ==
    LET found == {j \in 1..Len(cardSizes) : cardSizes[j].id = id}
    IN  IF found = {} THEN cardSizes[1]
        ELSE cardSizes[CHOOSE j \in found : \A m \in found : j <= m]

\* the render-time values a handleDownload call keeps across its await
closure(rec, size) == [recipient |-> rec, scale |-> size.downloadScale]

downloadNameNoFallback(rec) == <<rec, ".png">>

\* link.download = `${recipient || "birthday-card"}.png`, as <<stem, extension>>
downloadName(rec) == <<IF rec = "" THEN "birthday-card" ELSE rec, ".png">>

linkClickAlways(settled, name) == <<name>>

\* the statements after the await run only when html2canvas resolved:
\* the files that link.click() saves
linkClick(settled, name) == IF settled = "resolved" THEN <<name>> ELSE <<>>

\* the layout box of the card element (cardRef.current) in the browser
Boxes == {[width |-> 520, height |-> 650], [width |-> 320, height |-> 400]}

\* the canvas html2canvas resolves with: the element's box times the scale
html2canvas(box, scale) ==
    [width  |-> (box.width * scale[1]) \div scale[2],
     height |-> (box.height * scale[1]) \div scale[2]]

\* the recipient field: onChange={(event) => setRecipient(event.target.value)}
recipientChange(value) ==
    /\ recipient' = value
    /\ last' = Step("setRecipient", 0, 0)
    /\ UNCHANGED <<photoVars, cardVars, config, layoutId, cardSizeId, captured, error>>

\* a layout radio button: onChange={() => setLayoutId(layout.id)}; the two
\* layouts render their frames at different places of the tree, so a change
\* of layout mounts fresh, idle controllers
layoutChange(id) ==
    /\ layoutId' = id
    /\ dragging' = IF id = layoutId THEN dragging ELSE [j \in 1..Len(dragging) |-> FALSE]
    /\ last' = Step("setLayoutId", 0, 0)
    /\ UNCHANGED <<photos, uploading, inflight, cardVars, config, recipient,
                   cardSizeId, captured, error>>

\* a card size button: onClick={() => setCardSizeId(size.id)}
cardSizeClick(id) ==
    /\ cardSizeId' = id
    /\ last' = Step("setCardSizeId", 0, 0)
    /\ UNCHANGED <<photoVars, cardVars, config, recipient, layoutId, captured, error>>

\* a click on "Download card": handleDownload up to await html2canvas(...)
downloadClick ==
    /\ IF downloadDisabled
       THEN /\ UNCHANGED <<downloading, rasterizing, captured>>
            /\ last' = Step("downloadRefused", 0, rasterizing)
       ELSE /\ downloading' = TRUE
            /\ rasterizing' = rasterizing + 1
            /\ captured' = Append(captured, closure(recipient, cardSize(cardSizeId)))
            /\ last' = Step("downloadBegin", 0, rasterizing)
    /\ UNCHANGED <<stickers, textDragging, now, issued, config, form, error>>
    /\ UNCHANGED photoVars

\* html2canvas resolves: the file is saved, then finally
rasterOk ==
    /\ rasterizing > 0
    /\ rasterizing' = rasterizing - 1
    /\ downloading' = FALSE
    /\ captured' = Tail(captured)
    /\ \E box \in Boxes :
          last' = [closure |-> Head(captured),
                   canvas  |-> html2canvas(box, Head(captured).scale),
                   box     |-> box,
                   saved   |-> linkClick("resolved", downloadName(Head(captured).recipient))]
                  @@ Step("downloadOk", 0, rasterizing)
    /\ UNCHANGED <<stickers, textDragging, now, issued, config, form, error>>
    /\ UNCHANGED photoVars

\* html2canvas rejects: catch, then finally
rasterFail(message) ==
    /\ rasterizing > 0
    /\ rasterizing' = rasterizing - 1
    /\ downloading' = FALSE
    /\ captured' = Tail(captured)
    /\ error' = setError(error, message)
    /\ last' = [closure |-> Head(captured),
                saved   |-> linkClick("rejected", downloadName(Head(captured).recipient))]
               @@ FailureStep(Step("downloadFail", 0, rasterizing), message, [ok |-> FALSE])
    /\ UNCHANGED <<stickers, textDragging, now, issued, config, form>>
    /\ UNCHANGED photoVars

(***************************************************************************)
(* Layout engine.                                                          *)
(***************************************************************************)
\* Math.ceil(a / b), a >= 0 and b > 0
mathCeil(a, b) == IF a % b = 0 THEN a \div b ELSE (a \div b) + 1

\* variant of getPhotoGrid: the quotient is rounded down
getPhotoGridFloor(count) ==
    LET safeCount == mathMax(1, count)
        columns == IF safeCount <= 1 THEN 1 ELSE IF safeCount <= 4 THEN 2 ELSE 3
    IN  [columns |-> columns, rows |-> safeCount \div columns]

\* getPhotoGrid(count)
getPhotoGrid(count) ==
    LET safeCount == mathMax(1, count)
        columns == IF safeCount <= 1 THEN 1 ELSE IF safeCount <= 4 THEN 2 ELSE 3
    IN  [columns |-> columns, rows |-> mathCeil(safeCount, columns)]

\* the grid of the frames mapped from the list: photoGrid in the duo layout,
\* secondaryGrid in the other
previewGrid(layout, list) ==
    IF layout = "duo" THEN getPhotoGrid(Len(list))
    ELSE getPhotoGrid(Len(secondaryPhotos(list)))

\* getPhotoGrid applied to the count at hand
applyGetPhotoGrid ==
    /\ last.op = "count"
    /\ last' = [grid |-> getPhotoGrid(last.n)] @@ Step("getPhotoGrid", 0, last.n)
    /\ UNCHANGED <<aside, error>>
    /\ UNCHANGED photoVars
    /\ UNCHANGED cardVars

(***************************************************************************)
(* Specifications.                                                         *)
(***************************************************************************)
ApiUrlEnvs == {"undefined", "", "https://api.example.com"}

\* the state after the first render, for the given build-time environments
Start(envs) ==
    /\ photos = <<Null, Null>>
    /\ uploading = <<FALSE, FALSE>>
    /\ inflight = <<>>
    /\ dragging = <<FALSE, FALSE>>
    /\ imagekitPublicKey \in PublicKeys
    /\ apiUrlEnv \in envs
    /\ stickers = <<>>
    /\ textDragging = <<>>
    /\ now = 0
    /\ issued = {}
    /\ error = NoError
    /\ downloading = FALSE
    /\ rasterizing = 0
    /\ recipient = ""
    /\ layoutId = "duo"
    /\ cardSizeId = "standard"
    /\ captured = <<>>
    /\ last = Step("init", 0, 0)

Init == Start({"undefined"})

RasterMessages == {"Tainted canvases may not be exported."}

\* bodies of a non-2xx answer of the upload service, with a message or not
TooLarge == [message |-> "File too large"]
NoMessage == [help |-> ""]
StickerUpdates == {[text |-> "Hi"]}

\* add / remove / swap buttons of the photo list
StoreOps ==
    \/ handleAddPhotoSlot
    \/ \E i \in 1..MaxSlots : handleRemove(i)
    \/ swapPhotosClick

\* handleUpload, from the file input or a drop, and the answers of the
\* auth relay and of the upload service
UploadOps(files, urls, pace, authMessages, uploadBodies) ==
    \/ \E i \in 1..MaxSlots, f \in files : handleUploadNoKey(i, f)
    \/ \E i \in 1..MaxSlots, f \in files : handleUploadBegin(i, f, pace)
    \/ \E k \in 1..MaxInflight : authOk(k)
    \/ \E k \in 1..MaxInflight, m \in authMessages : authFail(k, m)
    \/ \E k \in 1..MaxInflight, u \in urls : uploadOk(k, u)
    \/ \E k \in 1..MaxInflight, b \in uploadBodies : uploadFail(k, b)

\* pointer events on the photo frames of the preview
DragOps(events, rects) ==
    \/ \E k \in 1..MaxSlots, e \in events, r \in rects : imagePointerDown(k, e, r)
    \/ \E k \in 1..MaxSlots, e \in events, r \in rects : imagePointerMove(k, e, r)
    \/ \E k \in 1..MaxSlots : imagePointerUp(k)

\* Spec: the slot list and the uploads, the user picking a file for upload
\* only while no other upload is in flight.
Next ==
    \/ StoreOps
    \/ UploadOps({FileA}, {"u1"}, "serial", {AuthFailedMessage}, {TooLarge})

Spec == Init /\ [][Next]_vars

\* SpecPlace: uploads into the two initial slots and drags of their photos.
NextPlace ==
    \/ UploadOps({FileA, FileB}, {"u1", "u2"}, "serial", {AuthFailedMessage},
                 {TooLarge})
    \/ DragOps({[clientX |-> 170, clientY |-> 50]}, Rects)

SpecPlace == Init /\ [][NextPlace]_vars

\* SpecRace: uploads of different files overlapping on the first of the two
\* initial slots, both services answering 2xx, and the remove and swap buttons.
RaceSlots == {1}

NextRace ==
    \/ \E i \in 1..MaxSlots : handleRemove(i)
    \/ swapPhotosClick
    \/ \E i \in RaceSlots, f \in Files : handleUploadBegin(i, f, "overlap")
    \/ \E k \in 1..MaxInflight : authOk(k)
    \/ \E k \in 1..MaxInflight : uploadOk(k, "u1")

SpecRace == Init /\ [][NextRace]_vars

\* SpecCard: the sticker list and the export button.
NextCard ==
    \/ \E r \in RandVals : addStickerClick(r)
    \/ \E j \in 1..MaxStickers : handleRemoveSticker(j)
    \/ \E j \in 1..MaxStickers, u \in StickerUpdates : editSticker(j, u)
    \/ Tick
    \/ downloadClick
    \/ rasterOk
    \/ \E m \in RasterMessages : rasterFail(m)

SpecCard == Init /\ [][NextCard]_vars

\* pointer events the photo frames ignore
IgnoredOps(events, rects) ==
    \/ \E k \in 1..MaxSlots, e \in events, r \in rects : imagePointerDownEmpty(k, e, r)
    \/ \E k \in 1..MaxSlots, e \in events, r \in rects : imagePointerMoveIgnored(k, e, r)

\* pointer events on the stickers of the preview
TextDragOps(events, rects) ==
    \/ \E j \in 1..MaxStickers, e \in events, r \in rects : textPointerDown(j, e, r)
    \/ \E j \in 1..MaxStickers, e \in events, r \in rects : textPointerMove(j, e, r)
    \/ \E j \in 1..MaxStickers, e \in events, r \in rects : textPointerMoveIgnored(j, e, r)
    \/ \E j \in 1..MaxStickers : textPointerUp(j)

\* the card once the given slots and stickers are in place and every upload
\* has settled
Composed(slots, texts) ==
    /\ photos = slots
    /\ uploading = [j \in 1..Len(slots) |-> FALSE]
    /\ inflight = <<>>
    /\ dragging = [j \in 1..Len(slots) |-> FALSE]
    /\ imagekitPublicKey = "pk"
    /\ apiUrlEnv = "undefined"
    /\ stickers = texts
    /\ textDragging = [j \in 1..Len(texts) |-> FALSE]
    /\ now = 0
    /\ issued = {texts[j].id : j \in 1..Len(texts)}
    /\ error = NoError
    /\ downloading = FALSE
    /\ rasterizing = 0
    /\ recipient = ""
    /\ layoutId = "duo"
    /\ cardSizeId = "standard"
    /\ captured = <<>>

Loaded(slots, texts) == Composed(slots, texts) /\ last = Step("init", 0, 0)

\* SpecDrag: pointer events on the photo frames and on the stickers of a card
\* with one filled and one empty slot, over containers of positive size; the
\* pointer is inside the container or outside it.
InsideEvent == [clientX |-> 170, clientY |-> 50]
OutsideEvent == [clientX |-> 0 - 30, clientY |-> 410]

InitDrag == Loaded(<<createSlot("u1", FileA), Null>>, <<>>)

NextDrag ==
    \/ DragOps({InsideEvent, OutsideEvent}, Rects)
    \/ IgnoredOps({InsideEvent, OutsideEvent}, Rects)
    \/ \E r \in RandVals : addStickerClick(r)
    \/ TextDragOps({InsideEvent, OutsideEvent}, Rects)

SpecDrag == InitDrag /\ [][NextDrag]_vars

\* SpecFrames: pointer events on the photo frames of a card with three slots,
\* two of them filled.
InitFrames == Loaded(<<createSlot("u1", FileA), createSlot("u1", FileA), Null>>, <<>>)

NextFrames ==
    \/ DragOps({InsideEvent, OutsideEvent}, Rects)
    \/ IgnoredOps({InsideEvent, OutsideEvent}, Rects)

SpecFrames == InitFrames /\ [][NextFrames]_vars

\* SpecFlat: pointer events on one photo and one sticker while the layout gives
\* the container its size or none at all; the pointer is inside or on the
\* container's corner.
FlatRect == [left |-> 10, top |-> 10, width |-> 0, height |-> 0]
CornerEvent == [clientX |-> 10, clientY |-> 10]

InitFlat ==
    Loaded(<<createSlot("u1", FileA), Null>>, <<createSticker("Your text", 0, "a3f")>>)

NextFlat ==
    \/ DragOps({InsideEvent, CornerEvent}, Rects \cup {FlatRect})
    \/ IgnoredOps({InsideEvent, CornerEvent}, Rects \cup {FlatRect})
    \/ TextDragOps({InsideEvent, CornerEvent}, Rects \cup {FlatRect})

SpecFlat == InitFlat /\ [][NextFlat]_vars

\* SpecSwap: swapPhotos as a function, applied to slot lists of every length
\* up to MaxSlots.
MovedSlot == [createSlot("u2", FileB) EXCEPT !.position = [x |-> 80, y |-> 20]]
SlotValues == {Null, createSlot("u1", FileA), MovedSlot}
SlotLists == UNION {[1..n -> SlotValues] : n \in 0..MaxSlots}

InitSwap == \E slots \in SlotLists : Loaded(slots, <<>>)

NextSwap == applySwapPhotos

SpecSwap == InitSwap /\ [][NextSwap]_vars

\* SpecGrid: getPhotoGrid as a function, applied to every count up to
\* MaxCount.
InitGrid ==
    /\ Composed(<<Null, Null>>, <<>>)
    /\ \E count \in 0..MaxCount : last = Step("count", 0, count)

NextGrid == applyGetPhotoGrid

SpecGrid == InitGrid /\ [][NextGrid]_vars

\* SpecErrors: uploads that overlap on the two initial slots and fail at the
\* relay or at the service, and exports that fail.
NextErrors ==
    \/ UploadOps({FileA}, {"u1"}, "overlap", {AuthFailedMessage, "Failed to fetch"},
                 {TooLarge, NoMessage})
    \/ downloadClick
    \/ rasterOk
    \/ \E m \in RasterMessages : rasterFail(m)

SpecErrors == Init /\ [][NextErrors]_vars

\* SpecExport: exports of a composed card while the form is being edited.
Recipients == {"", "Ana", " "}

InitExport ==
    Loaded(<<createSlot("u1", FileA), Null>>, <<createSticker("Your text", 0, "a3f")>>)

NextExport ==
    \/ \E value \in Recipients : recipientChange(value)
    \/ \E id \in LayoutIds : layoutChange(id)
    \/ \E id \in CardSizeIds : cardSizeClick(id)
    \/ downloadClick
    \/ rasterOk
    \/ \E m \in RasterMessages : rasterFail(m)

SpecExport == InitExport /\ [][NextExport]_vars

\* SpecScenario: one user composing one card, step after step: pick image A
\* for the first slot, drag it and release it at InsideEvent, add a sticker,
\* type its text, choose a card size, export; the recipient may be typed first.  Each step is enabled by the
\* step taken before it, never by what the store holds.
After(ops) == last.op \in ops

NextScenario ==
    \/ After({"init"}) /\ Tick
    \/ After({"init", "tick"}) /\ \E value \in Recipients : recipientChange(value)
    \/ After({"init", "tick", "setRecipient"}) /\ handleUploadBegin(1, FileA, "serial")
    \/ After({"uploadBegin"}) /\ authOk(1)
    \/ After({"authOk"}) /\ \E url \in {"u1", "u2"} : uploadOk(1, url)
    \/ After({"uploadOk"}) /\
         \E ev \in {InsideEvent, OutsideEvent}, r \in Rects : imagePointerDown(1, ev, r)
    \/ After({"pointerDown", "pointerMove"}) /\
         \E ev \in {InsideEvent, OutsideEvent}, r \in Rects : imagePointerMove(1, ev, r)
    \/ After({"pointerDown", "pointerMove"}) /\ last.event = InsideEvent /\ imagePointerUp(1)
    \/ After({"pointerUp"}) /\ \E r \in RandVals : addStickerClick(r)
    \/ After({"addSticker"}) /\ editSticker(1, [text |-> "Hi"])
    \/ After({"updateSticker", "setCardSizeId"}) /\ \E id \in CardSizeIds : cardSizeClick(id)
    \/ After({"updateSticker", "setCardSizeId"}) /\ cardSizeId = "standard" /\ downloadClick
    \/ After({"downloadBegin"}) /\ rasterOk

SpecScenario == Init /\ [][NextScenario]_vars

\* SpecUnmount: slots are removed while frames are being dragged.
InitUnmount ==
    Loaded(<<createSlot("u1", FileA), createSlot("u2", FileB), createSlot("u1", FileA)>>, <<>>)

NextUnmount ==
    \/ DragOps({InsideEvent, OutsideEvent}, Rects)
    \/ IgnoredOps({InsideEvent, OutsideEvent}, Rects)
    \/ \E index \in 1..MaxSlots : handleRemove(index)
    \/ handleAddPhotoSlot

SpecUnmount == InitUnmount /\ [][NextUnmount]_vars

\* SpecLayout: frames dragged in both layouts while slots come and go.
InitLayout == Loaded(<<createSlot("u1", FileA), createSlot("u2", FileB), Null>>, <<>>)

NextLayout ==
    \/ DragOps({InsideEvent, OutsideEvent}, Rects)
    \/ IgnoredOps({InsideEvent}, Rects)
    \/ \E id \in LayoutIds : layoutChange(id)
    \/ \E index \in 1..MaxSlots : handleRemove(index)
    \/ handleAddPhotoSlot

SpecLayout == InitLayout /\ [][NextLayout]_vars

\* SpecAdd: slots and stickers added to and removed from a card in the making.
InitAdd == Loaded(<<createSlot("u1", FileA), Null>>, <<>>)

NextAdd ==
    \/ handleAddPhotoSlot
    \/ \E index \in 1..MaxSlots : handleRemove(index)
    \/ \E r \in RandVals : addStickerClick(r)
    \/ \E j \in 1..MaxStickers : handleRemoveSticker(j)
    \/ \E j \in 1..MaxStickers, u \in StickerUpdates : editSticker(j, u)

SpecAdd == InitAdd /\ [][NextAdd]_vars

\* SpecConfig: uploads under every build-time configuration.
InitConfig == Start(ApiUrlEnvs)

NextConfig ==
    \/ handleAddPhotoSlot
    \/ UploadOps({FileA}, {"u1"}, "serial", {AuthFailedMessage}, {TooLarge})

SpecConfig == InitConfig /\ [][NextConfig]_vars

(***************************************************************************)
(* Properties.                                                             *)
(***************************************************************************)
Resolved == {"authFail", "uploadFail", "uploadOk"}

\* C1: in every reachable state of the photo side (add, remove, swap,
\* upload start and completion, drags) there are at least 2 photo slots.
C1_AtLeastTwoSlots == Len(photos) >= 2

\* a remove on two slots, the other one holding a photo, has just run
C1_Witness ==
    /\ last.op = "remove"
    /\ last.n = 2
    /\ Len(photos) = 2
    /\ \E k \in 1..Len(photos) : photos[k] # Null

\* C2: the response of an upload whose index, because of a remove, no longer
\* denotes the slot it was started on changes no slot.
C2_StaleResponseDiscarded ==
    [][(last'.op = "uploadOk" /\ last'.stale) => photos' = photos]_vars

\* C3: at most one export is in flight; a click on the export button while
\* downloading is true starts no rasterization.
C3_OneExportInFlight ==
    /\ rasterizing <= 1
    /\ downloading <=> (rasterizing = 1)
    /\ last.op = "downloadRefused" => rasterizing = last.n

\* a click arrived while an export was in flight
C3_Witness == last.op = "downloadRefused" /\ rasterizing = 1 /\ downloading

\* C4: there are never more than 3 stickers, and a click on "Add text
\* sticker" with 3 stickers present leaves the stickers unchanged.
C4_AtMostThreeStickers ==
    [][/\ Len(stickers') <= 3
       /\ (Len(stickers) = 3 /\ last'.op \in {"addSticker", "addStickerRefused"})
            => stickers' = stickers]_vars

\* a click arrived with 3 stickers present, after a sticker had been removed
\* and another added
C4_Witness ==
    /\ last.op = "addStickerRefused"
    /\ Len(stickers) = 3
    /\ Cardinality(issued) > 3

\* C5: the ids of the stickers present are pairwise distinct, and a new
\* sticker never gets an id that was handed out before.
C5_StickerIdsUnique ==
    /\ \A i, j \in 1..Len(stickers) : i # j => stickers[i].id # stickers[j].id
    /\ ~(last.op = "addSticker" /\ last.reused)

\* C6: a remove at a valid index of 3 or more slots deletes exactly that
\* slot: one slot fewer, the slots before it unchanged, the slots after it
\* unchanged and one index lower.
C6_RemoveDeletesOne ==
    [][(last'.op = "remove" /\ Len(photos) >= 3) =>
          /\ Len(photos') = Len(photos) - 1
          /\ \A j \in 1..Len(photos') :
                photos'[j] = IF j < last'.index THEN photos[j] ELSE photos[j + 1]]_vars

\* a filled slot was removed from 3 or more and a filled slot moved down
\* into its index
C6_Witness ==
    /\ last.op = "remove"
    /\ last.n >= 3
    /\ last.index < last.n
    /\ photos[last.index] # Null

\* C7: a remove on exactly 2 slots keeps 2 slots, empties the slot at the
\* index and leaves the other slot unchanged at its index.
C7_RemoveClearsInPlace ==
    [][(last'.op = "remove" /\ Len(photos) = 2) =>
          /\ Len(photos') = 2
          /\ photos'[last'.index] = Null
          /\ \A j \in 1..2 : j # last'.index => photos'[j] = photos[j]]_vars

\* one of 2 slots was cleared while the other holds an image
C7_Witness ==
    /\ last.op = "remove"
    /\ last.n = 2
    /\ photos[last.index] = Null
    /\ \E j \in 1..2 : j # last.index /\ photos[j] # Null

\* C8: of two successful uploads in flight together on the same slot, with no
\* remove or swap meanwhile, the one that resolves last fills the slot,
\* whichever was started first.
C8_LastResponseWins ==
    (last.op = "uploadOk" /\ last.raced.by # "no") =>
        /\ last.index \in 1..Len(photos)
        /\ photos[last.index].url = last.url
        /\ photos[last.index].name = fileName(last.file)

\* the upload started first resolved last, over the other file
C8_Witness ==
    /\ last.op = "uploadOk"
    /\ last.raced.by = "later"
    /\ last.raced.file # last.file
    /\ photos[last.index].name = fileName(last.file)

\* C9: no step of an upload attempt that fails (key missing, auth relay or
\* upload service failing) changes the photo slots.
C9_FailedUploadKeepsSlots ==
    [][last'.op \in {"uploadNoKey", "uploadBegin", "authOk", "authFail", "uploadFail"}
          => photos' = photos]_vars

\* an upload to an empty slot was rejected by the upload service, next to a
\* filled slot
C9_Witness ==
    /\ last.op = "uploadFail"
    /\ photos[last.index] = Null
    /\ \E j \in 1..Len(photos) : photos[j] # Null

\* C10: once an upload has completed and no other upload for its slot is in
\* flight, the uploading flag of that slot is false.
C10_FlagFalseOnceCompleted ==
    (/\ last.op \in Resolved
     /\ last.cur # 0
     /\ \A k \in 1..Len(inflight) : inflight[k].cur # last.cur)
        => ~uploading[last.cur]

\* C11 as stated: a file handed to handleUpload while the API base URL or the
\* public key is absent starts nothing: no request, no flag set, the slots
\* unchanged, and the configuration message is shown.
HandleUploadOps == {"uploadNoKey", "uploadBegin"}

C11_RefusedWhenEitherAbsent ==
    [][(/\ last'.op \in HandleUploadOps
        /\ (apiUrlEnv \in {"undefined", ""} \/ imagekitPublicKey = ""))
       => (/\ inflight' = inflight
           /\ uploading' = uploading
           /\ photos' = photos
           /\ error' = MissingKeyMessage)]_vars

\* C11, amended: a file handed to handleUpload while the public key is absent
\* starts nothing (no request, no flag set, slots unchanged) and shows the
\* missing-key message; while the API base URL is absent and the key present
\* the upload starts, its auth request going to the default base URL.
C11_RefusedWhenKeyAbsent ==
    [][(last'.op \in HandleUploadOps)
       => (/\ imagekitPublicKey = ""
              => (/\ inflight' = inflight
                  /\ uploading' = uploading
                  /\ photos' = photos
                  /\ error' = MissingKeyMessage)
           /\ (imagekitPublicKey # "" /\ apiUrlEnv = "undefined")
              => (/\ Len(inflight') = Len(inflight) + 1
                  /\ last'.op = "uploadBegin"
                  /\ last'.request = [base |-> "http://localhost:4000", path |-> "/auth"]
                  /\ uploading'[last'.index]))]_vars

C11_Witness ==
    /\ last.op = "uploadNoKey"
    /\ imagekitPublicKey = ""
    /\ error = MissingKeyMessage
    /\ Len(photos) = 3

C11_WitnessDefaultUrl ==
    /\ last.op = "uploadBegin"
    /\ apiUrlEnv = "undefined"
    /\ inflight # <<>>

\* C12: over containers of positive width and height, the stored position of
\* every filled slot and of every sticker has x and y within 0..100, wherever
\* the pointer was, inside the container or outside it.
InRange(position) ==
    /\ 0 <= position.x /\ position.x <= 100
    /\ 0 <= position.y /\ position.y <= 100

C12_PositionsInRange ==
    /\ \A i \in 1..Len(photos) : photos[i] # Null => InRange(photos[i].position)
    /\ \A j \in 1..Len(stickers) : InRange(stickers[j].position)

\* a photo dragged to a pointer outside its frame, one sticker dragged outside
\* the card and one inside
C12_Witness ==
    /\ photos[1] # Null
    /\ photos[1].position = [x |-> 0, y |-> 100]
    /\ \E j \in 1..Len(stickers) : stickers[j].position = [x |-> 0, y |-> 100]
    /\ \E j \in 1..Len(stickers) : stickers[j].position = [x |-> 80, y |-> 20]

\* C13: a pointer event mapped against a container of width 0 or height 0
\* leaves every stored position as it was, stores nothing that is NaN or
\* outside 0..100, and surfaces no error.
MappedOps == {"pointerDown", "pointerMove", "textPointerDown", "textPointerMove"}

C13_DegenerateContainerIgnored ==
    [][(/\ last'.op \in MappedOps
        /\ (last'.rect.width = 0 \/ last'.rect.height = 0))
       => (/\ photos' = photos
           /\ stickers' = stickers
           /\ error' = error
           /\ \A i \in 1..Len(photos') :
                  photos'[i] # Null => InRange(photos'[i].position)
           /\ \A j \in 1..Len(stickers') : InRange(stickers'[j].position))]_vars

\* C14: swapping the first two photos twice in a row gives back the slots as
\* they were before the first swap, slots 0 and 1 and all the others.
C14_SwapTwiceRestores ==
    (last.op = "swapPhotos" /\ last.twice) => photos = last.origin

C14_Witness ==
    /\ last.op = "swapPhotos"
    /\ last.twice
    /\ Len(photos) = 3
    /\ photos[1] # Null /\ photos[2] # Null /\ photos[3] # Null
    /\ photos[1] # photos[2]
    /\ last.before # photos

\* C15: swapPhotos puts the old slot 1 at index 0 and the old slot 0 at index
\* 1, whole records, keeps the number of slots, and leaves every slot from
\* index 2 on as it was; a list of fewer than two slots comes back unchanged.
C15_SwapExchangesFirstTwo ==
    last.op = "swapPhotos" =>
        /\ Len(photos) = Len(last.before)
        /\ Len(last.before) >= 2 =>
              /\ photos[1] = last.before[2]
              /\ photos[2] = last.before[1]
              /\ \A j \in 3..Len(photos) : photos[j] = last.before[j]
        /\ Len(last.before) < 2 => photos = last.before

C15_Witness ==
    /\ last.op = "swapPhotos"
    /\ ~last.twice
    /\ photos = <<MovedSlot, createSlot("u1", FileA), MovedSlot>>

C15_WitnessShort ==
    /\ last.op = "swapPhotos"
    /\ photos = <<MovedSlot>>

\* C16: the success step of an upload into slot i stores there the returned
\* url, the file's name, size and type and the position (50, 50), whatever the
\* slot held, and changes no other slot; the number of slots stays.
C16_UploadFillsSlot ==
    [][last'.op = "uploadOk"
       => (/\ Len(photos') = Len(photos)
           /\ \A j \in 1..Len(photos) : j # last'.index => photos'[j] = photos[j]
           /\ last'.index \in 1..Len(photos)
              => photos'[last'.index] =
                    [url |-> last'.url, name |-> fileName(last'.file),
                     size |-> fileSize(last'.file), type |-> fileType(last'.file),
                     position |-> [x |-> 50, y |-> 50]])]_vars

\* an upload that replaced a photo the user had moved, next to another photo
C16_Witness ==
    /\ last.op = "uploadOk"
    /\ last.index \in 1..Len(photos)
    /\ last.moved
    /\ photos[last.index].position = [x |-> 50, y |-> 50]
    /\ \E j \in 1..Len(photos) : j # last.index /\ photos[j] # Null

\* The percentage of a pointer coordinate within a container of positive
\* size, kept within 0..100.
Pct(p, origin, size) ==
    LET v == ((p - origin) * 100) \div size
    IN  IF v < 0 THEN 0 ELSE IF v > 100 THEN 100 ELSE v

Mapped(event, rect) ==
    [x |-> Pct(event.clientX, rect.left, rect.width),
     y |-> Pct(event.clientY, rect.top, rect.height)]

ImageDownOps == {"pointerDown", "pointerDownEmpty"}
ImageMoveOps == {"pointerMove", "pointerMoveIgnored"}
TextMoveOps == {"textPointerMove", "textPointerMoveIgnored"}

\* C17: a pointer down or move on the frame of an empty slot leaves the whole
\* slot sequence unchanged; on the frame of a filled slot it changes nothing
\* but that slot's position.
C17_PositionOnlyOfFilledSlot ==
    [][(last'.op \in ImageDownOps \cup ImageMoveOps)
       => (/\ photos[last'.index] = Null => photos' = photos
           /\ photos[last'.index] # Null
              => (/\ Len(photos') = Len(photos)
                  /\ \A j \in 1..Len(photos) :
                        j # last'.index => photos'[j] = photos[j]
                  /\ photos'[last'.index] =
                        [photos[last'.index] EXCEPT
                            !.position = photos'[last'.index].position]))]_vars

\* both photos dragged to different places, then a pointer down on the empty
\* third frame
C17_Witness ==
    /\ last.op = "pointerDownEmpty"
    /\ photos[last.index] = Null
    /\ photos[1].position = [x |-> 80, y |-> 20]
    /\ photos[2].position = [x |-> 0, y |-> 100]

\* C18 as stated: a pointer down on any photo frame or sticker puts its
\* controller in the dragging state and stores the mapped position in the same
\* step; a pointer up right after leaves the element at that position.
C18_PointerDownStartsDrag ==
    [][/\ last'.op \in ImageDownOps
          => (/\ dragging'[last'.index]
              /\ photos'[last'.index] # Null
              /\ photos'[last'.index].position = Mapped(last'.event, last'.rect))
       /\ last'.op = "textPointerDown"
          => (/\ textDragging'[last'.index]
              /\ stickers'[last'.index].position = Mapped(last'.event, last'.rect))
       /\ (last.op = "pointerDown" /\ last'.op = "pointerUp" /\ last'.index = last.index)
          => (/\ ~dragging'[last'.index]
              /\ photos'[last'.index].position = Mapped(last.event, last.rect))
       /\ (last.op = "textPointerDown" /\ last'.op = "textPointerUp"
              /\ last'.index = last.index)
          => (/\ ~textDragging'[last'.index]
              /\ stickers'[last'.index].position = Mapped(last.event, last.rect))]_vars

\* C18, amended: a pointer down on the frame of a filled slot or on a sticker
\* puts its controller in the dragging state and stores the mapped position in
\* the same step; a pointer up right after leaves the element at that
\* position.  A pointer down on the frame of an empty slot leaves the
\* controller idle and stores nothing.
C18_PointerDownOnFilledStartsDrag ==
    [][/\ (last'.op \in ImageDownOps /\ photos[last'.index] # Null)
          => (/\ dragging'[last'.index]
              /\ photos'[last'.index].position = Mapped(last'.event, last'.rect))
       /\ (last'.op \in ImageDownOps /\ photos[last'.index] = Null)
          => (dragging' = dragging /\ photos' = photos)
       /\ last'.op = "textPointerDown"
          => (/\ textDragging'[last'.index]
              /\ stickers'[last'.index].position = Mapped(last'.event, last'.rect))
       /\ (last.op = "pointerDown" /\ last'.op = "pointerUp" /\ last'.index = last.index)
          => (/\ ~dragging'[last'.index]
              /\ photos'[last'.index].position = Mapped(last.event, last.rect))
       /\ (last.op = "textPointerDown" /\ last'.op = "textPointerUp"
              /\ last'.index = last.index)
          => (/\ ~textDragging'[last'.index]
              /\ stickers'[last'.index].position = Mapped(last.event, last.rect))]_vars

\* a pointer down outside the frame of the photo, while a sticker is being
\* dragged inside the card
C18_Witness ==
    /\ last.op = "pointerDown"
    /\ dragging[last.index]
    /\ photos[last.index].position = [x |-> 0, y |-> 100]
    /\ \E j \in 1..Len(stickers) :
          textDragging[j] /\ stickers[j].position = [x |-> 80, y |-> 20]

\* C19: a pointer move on an element whose controller is dragging stores the
\* newly mapped position; a pointer move on an element whose controller is
\* idle changes no position; a pointer up or cancel makes the controller idle
\* and changes no position.
C19_MoveWritesOnlyWhileDragging ==
    [][/\ (last'.op \in ImageMoveOps /\ photos[last'.index] # Null)
          => IF dragging[last'.index]
             THEN photos'[last'.index].position = Mapped(last'.event, last'.rect)
             ELSE photos' = photos /\ stickers' = stickers
       /\ last'.op \in TextMoveOps
          => IF textDragging[last'.index]
             THEN stickers'[last'.index].position = Mapped(last'.event, last'.rect)
             ELSE photos' = photos /\ stickers' = stickers
       /\ last'.op = "pointerUp"
          => (~dragging'[last'.index] /\ photos' = photos /\ stickers' = stickers)
       /\ last'.op = "textPointerUp"
          => (~textDragging'[last'.index] /\ photos' = photos
              /\ stickers' = stickers)]_vars

\* a move on the photo after its drag has ended, the photo staying where the
\* drag left it, while a sticker is where a move took it
C19_Witness ==
    /\ last.op = "pointerMoveIgnored"
    /\ photos[last.index] # Null
    /\ ~dragging[last.index]
    /\ photos[last.index].position = [x |-> 0, y |-> 100]
    /\ last.event = InsideEvent
    /\ \E j \in 1..Len(stickers) : stickers[j].position = [x |-> 80, y |-> 20]

\* C20: a pointer event on one element changes neither the dragging state nor
\* the stored position of any other element, and no field but the position of
\* its own.
ImageOps == ImageDownOps \cup ImageMoveOps \cup {"pointerUp"}
TextOps == TextMoveOps \cup {"textPointerDown", "textPointerUp"}

C20_ControllersIndependent ==
    [][/\ last'.op \in ImageOps
          => (/\ stickers' = stickers
              /\ textDragging' = textDragging
              /\ Len(photos') = Len(photos)
              /\ \A j \in 1..Len(photos) :
                    j # last'.index
                    => (photos'[j] = photos[j] /\ dragging'[j] = dragging[j])
              /\ photos[last'.index] # Null
                 => photos'[last'.index] =
                       [photos[last'.index] EXCEPT
                           !.position = photos'[last'.index].position])
       /\ last'.op \in TextOps
          => (/\ photos' = photos
              /\ dragging' = dragging
              /\ Len(stickers') = Len(stickers)
              /\ \A j \in 1..Len(stickers) :
                    j # last'.index
                    => (stickers'[j] = stickers[j]
                        /\ textDragging'[j] = textDragging[j])
              /\ stickers'[last'.index] =
                    [stickers[last'.index] EXCEPT
                        !.position = stickers'[last'.index].position])]_vars

\* C21: for every count N >= 1 getPhotoGrid gives 1 column for N <= 1, 2 for
\* 2 <= N <= 4 and 3 for N >= 5, and as rows the least number r with
\* r * columns >= N; so (1,1) for 1, (2,2) for 4, (3,2) for 5, (3,3) for 7.
C21_GridGeometry ==
    (last.op = "getPhotoGrid" /\ last.n >= 1) =>
        LET N == last.n
            columns == last.grid.columns
            rows == last.grid.rows
        IN  /\ columns = IF N <= 1 THEN 1 ELSE IF N <= 4 THEN 2 ELSE 3
            /\ rows * columns >= N
            /\ (rows - 1) * columns < N
            /\ N = 1 => (columns = 1 /\ rows = 1)
            /\ N = 4 => (columns = 2 /\ rows = 2)
            /\ N = 5 => (columns = 3 /\ rows = 2)
            /\ N = 7 => (columns = 3 /\ rows = 3)

C21_Witness ==
    /\ last.op = "getPhotoGrid"
    /\ last.n = 7
    /\ last.grid = [columns |-> 3, rows |-> 3]

\* C22: the error line holds nothing or one message.  A step of a failed
\* operation (upload or export) puts that operation's message there in place
\* of what was there; no other step puts a message there; and when the upload
\* service rejects an upload with a message, the line holds that message.
FailureOps == {"uploadNoKey", "authFail", "uploadFail", "downloadFail"}

C22_SingleErrorSlot ==
    [][/\ last'.op \in FailureOps => error' = last'.message
       /\ last'.op \notin FailureOps => (error' = error \/ error' = NoError)
       /\ (last'.op = "uploadFail" /\ "message" \in DOMAIN last'.response)
          => error' = last'.response.message]_vars

\* a failed export whose message took the place of the upload service's
C22_Witness ==
    /\ last.op = "downloadFail"
    /\ last.replaced = "File too large"
    /\ error = "Tainted canvases may not be exported."


\* C23: when html2canvas rejects during an export, the message of the failure
\* is put in the error line, downloading goes back to false, no file is
\* saved, and neither the export request nor its failure changes the slots,
\* the stickers or the selections of the form.
C23_RasterFailureKeepsComposition ==
    [][/\ last'.op = "downloadFail" =>
            /\ error' = last'.message /\ error' # NoError
            /\ downloading' = FALSE
            /\ last'.saved = <<>>
       /\ last'.op \in {"downloadBegin", "downloadFail"} =>
            /\ photos' = photos /\ uploading' = uploading
            /\ stickers' = stickers
            /\ recipient' = recipient /\ layoutId' = layoutId
            /\ cardSizeId' = cardSizeId]_vars

C23_Witness ==
    /\ last.op = "downloadFail" /\ last.closure.recipient = "Ana"
    /\ error = "Tainted canvases may not be exported." /\ ~downloading
    /\ photos[1] # Null /\ Len(stickers) = 1 /\ layoutId = "focus"

\* C30: the file an export saves is named after the recipient, followed by
\* ".png", when the recipient is not the empty text, and "birthday-card.png"
\* when it is; the recipient used is the one of the moment of the click.
C30_ExportFilename ==
    [][/\ last'.op = "downloadBegin" =>
            captured'[Len(captured')].recipient = recipient
       /\ last'.op = "downloadOk" =>
            LET rec == Head(captured).recipient
            IN  /\ rec # "" => last'.saved = << <<rec, ".png">> >>
                /\ rec = "" => last'.saved = << <<"birthday-card", ".png">> >>]_vars

C30_Witness ==
    /\ last.op = "downloadOk" /\ last.closure.recipient = ""
    /\ last.saved = << <<"birthday-card", ".png">> >> /\ recipient = "Ana"

C30_WitnessNamed ==
    /\ last.op = "downloadOk" /\ last.saved = << <<"Ana", ".png">> >> /\ recipient = ""


\* C24: from two empty slots, once image A was uploaded into the first slot
\* and dragged to the point at 80% / 20% of its frame, a sticker was added
\* and given the text "Hi", and the export was requested with the standard
\* card size: the first slot holds image A at position {80, 20}, the second
\* slot is empty, there is exactly one sticker and its text is "Hi", one
\* html2canvas call was made, with scale 2, and its canvas is twice as wide
\* and twice as high as the card element.
C24_EndToEnd ==
    last.op \in {"downloadBegin", "downloadOk"} =>
        /\ Len(photos) = 2
        /\ photos[1] # Null
        /\ photos[1].url \in {"u1", "u2"} /\ photos[1].name = fileName(FileA)
        /\ photos[1].position = [x |-> 80, y |-> 20]
        /\ photos[2] = Null
        /\ Len(stickers) = 1 /\ stickers[1].text = "Hi"
        /\ last.op = "downloadBegin" =>
              /\ rasterizing = 1 /\ downloading
              /\ Len(captured) = 1 /\ captured[1].scale = <<2, 1>>
        /\ last.op = "downloadOk" =>
              /\ rasterizing = 0 /\ captured = <<>>
              /\ last.closure.scale = <<2, 1>>
              /\ last.canvas = [width |-> last.box.width * 2, height |-> last.box.height * 2]

C24_Witness ==
    /\ last.op = "downloadOk" /\ last.canvas = [width |-> 1040, height |-> 1300]
    /\ photos[1] # Null /\ Len(stickers) = 1


Positions(list) ==
    [j \in 1..Len(list) |-> IF list[j] = Null THEN Null ELSE list[j].position]

\* C25: when a slot is removed from a list of three or more slots while its
\* frame is being dragged, the drag is given up: the pointer move that
\* follows on that frame changes the position of no slot, the one that took
\* the removed slot's index included.
C25_RemovalAbandonsDrag ==
    [][(/\ last.op = "remove" /\ last.n >= 3 /\ last.held
        /\ last'.op \in {"pointerMove", "pointerMoveIgnored"}
        /\ last'.index = last.index)
       => Positions(photos') = Positions(photos)]_vars


Paths(sent) == [j \in 1..Len(sent) |-> sent[j].path]

\* C26: an upload attempt asks the auth relay first and posts the file to the
\* upload service only once the relay has answered 2xx; when the relay
\* answers non-2xx or cannot be reached the attempt ends with an error and no
\* upload request; an attempt makes at most one auth request and at most one
\* upload request.
C26_AuthBeforeUpload ==
    [][/\ \A k \in 1..Len(inflight') :
             Paths(inflight'[k].sent) =
                 IF inflight'[k].pc = "auth" THEN <<"/auth">>
                 ELSE <<"/auth", "/api/v1/files/upload">>
       /\ last'.op = "uploadBegin" =>
             /\ Len(inflight') = Len(inflight) + 1
             /\ inflight'[Len(inflight')].pc = "auth"
       /\ last'.op = "authOk" =>
             \E k \in 1..Len(inflight) :
                 /\ Paths(inflight[k].sent) = <<"/auth">>
                 /\ Paths(inflight'[k].sent) = <<"/auth", "/api/v1/files/upload">>
                 /\ \A j \in (1..Len(inflight)) \ {k} : inflight'[j].sent = inflight[j].sent
       /\ last'.op = "authFail" =>
             /\ Paths(last'.sent) = <<"/auth">>
             /\ error' = last'.message /\ error' # NoError
             /\ Len(inflight') = Len(inflight) - 1
       /\ last'.op \in {"uploadOk", "uploadFail"} =>
             /\ Paths(last'.sent) = <<"/auth", "/api/v1/files/upload">>
             /\ Len(inflight') = Len(inflight) - 1
       /\ last'.op \notin {"uploadBegin", "authOk", "authFail", "uploadOk", "uploadFail"} =>
             Len(inflight') = Len(inflight)]_vars

C26_Witness ==
    /\ last.op = "authFail" /\ last.message = "Failed to fetch"
    /\ Paths(last.sent) = <<"/auth">> /\ error = "Failed to fetch"
    /\ Len(inflight) = 1 /\ inflight[1].pc = "upload"


\* the frames rendered for the list: one frame for each slot index, showing
\* that slot and writing to that index, in the places the layout gives them
FramesRight(layout, list) ==
    LET N == Len(list)
        frames == previewFrames(layout, list)
        grid == previewGrid(layout, list)
        M == IF layout = "duo" THEN N ELSE N - 1
    IN  /\ \A i \in 0..(N - 1) :
              /\ Cardinality({f \in 1..Len(frames) : frames[f].writes = i}) = 1
              /\ \A f \in 1..Len(frames) :
                    frames[f].writes = i => frames[f].slot = list[i + 1]
        /\ \A f \in 1..Len(frames) : frames[f].writes \in 0..(N - 1)
        /\ layout = "duo" =>
              \A k \in 0..(N - 1) :
                  /\ frames[k + 1].zone = "grid"
                  /\ frames[k + 1].key = k /\ frames[k + 1].writes = k
        /\ layout = "focus" =>
              /\ frames[1].zone = "hero" /\ frames[1].writes = 0
              /\ \A k \in 0..(N - 2) :
                    /\ frames[k + 2].zone = "secondary"
                    /\ frames[k + 2].key = k /\ frames[k + 2].writes = k + 1
        /\ grid.columns = IF M <= 1 THEN 1 ELSE IF M <= 4 THEN 2 ELSE 3
        /\ grid.rows * grid.columns >= M /\ (grid.rows - 1) * grid.columns < M

\* C27: in both layouts and for every number of slots from two up, each slot
\* index is shown by exactly one frame, whose controller writes back to that
\* same index: frame k of the duo grid to slot k; in the other layout the
\* hero frame to slot 0 and secondary frame k to slot k + 1, the secondary
\* frames laid on the grid computed for one slot less.
C27_OneControllerPerSlot ==
    [][/\ Len(photos') >= 2 => FramesRight(layoutId', photos')
       /\ last'.op \in {"pointerDown", "pointerMove"} =>
             LET f == last'.index
                 \* frame f is element f - 1 of the duo grid; in the other
                 \* layout it is the hero, or element f - 2 of the secondary grid
                 slot == IF layoutId = "duo" THEN (f - 1) + 1
                         ELSE IF f = 1 THEN 0 + 1 ELSE ((f - 2) + 1) + 1
             IN  /\ Len(photos') = Len(photos)
                 /\ \A j \in 1..Len(photos) : j # slot => photos'[j] = photos[j]
                 /\ photos'[slot] =
                       [photos[slot] EXCEPT !.position = Mapped(last'.event, last'.rect)]]_vars

C27_Witness ==
    /\ layoutId = "focus" /\ Len(photos) = 3 /\ last.op = "pointerMove" /\ last.index = 2
    /\ photos[1].position = [x |-> 0, y |-> 100]
    /\ photos[2].position = [x |-> 80, y |-> 20]

C27_WitnessDuo ==
    /\ layoutId = "duo" /\ Len(photos) = 3 /\ last.op = "pointerDown" /\ last.index = 2
    /\ photos[1].position = [x |-> 50, y |-> 50]
    /\ photos[2].position = [x |-> 80, y |-> 20]


\* C28: updateSticker changes, in the one sticker it is called for, the
\* fields given in the update and nothing else, and leaves every other
\* sticker, the order and the count as they were; removeSticker deletes the
\* one sticker it is called for and keeps the others in order.
C28_StickerUpdateAndRemove ==
    [][/\ last'.op = "updateSticker" =>
             LET j == last'.index
             IN  /\ Len(stickers') = Len(stickers)
                 /\ \A m \in 1..Len(stickers) : m # j => stickers'[m] = stickers[m]
                 /\ \A f \in DOMAIN stickers[j] :
                       stickers'[j][f] = IF f \in DOMAIN last'.updates
                                         THEN last'.updates[f] ELSE stickers[j][f]
       /\ last'.op = "removeSticker" =>
             stickers' = Without(stickers, last'.index)]_vars


\* C29: adding a sticker while there are fewer than three appends exactly one
\* sticker, at position {70, 20}, of size 18 and tone accent, and leaves the
\* stickers already there and the slots as they were; adding a slot appends
\* exactly one empty slot that is not uploading and leaves the slots already
\* there and the stickers as they were.
C29_AddAppendsOne ==
    [][/\ (last'.op \in {"addSticker", "addStickerRefused"} /\ Len(stickers) < 3) =>
             /\ last'.op = "addSticker"
             /\ Len(stickers') = Len(stickers) + 1
             /\ SubSeq(stickers', 1, Len(stickers)) = stickers
             /\ stickers'[Len(stickers')].position = [x |-> 70, y |-> 20]
             /\ stickers'[Len(stickers')].size = 18
             /\ stickers'[Len(stickers')].tone = "accent"
             /\ photos' = photos /\ uploading' = uploading
       /\ last'.op = "addSlot" =>
             /\ Len(photos') = Len(photos) + 1
             /\ SubSeq(photos', 1, Len(photos)) = photos
             /\ photos'[Len(photos')] = Null
             /\ Len(uploading') = Len(photos')
             /\ SubSeq(uploading', 1, Len(uploading)) = uploading
             /\ uploading'[Len(uploading')] = FALSE
             /\ stickers' = stickers]_vars

C29_Witness ==
    /\ last.op = "addSticker" /\ Len(stickers) = 2 /\ stickers[1].text = "Hi"
    /\ Len(photos) = 3 /\ photos[1] # Null

C29_WitnessSlot ==
    /\ last.op = "addSlot" /\ Len(photos) = 3 /\ photos[1] # Null /\ Len(stickers) = 1


\* C31: as long as an upload started on a slot has not completed and that
\* slot still exists, the uploading flag at the index where the slot sits now
\* is true.
C31_FlagTrueWhilePending ==
    \A k \in 1..Len(inflight) :
        inflight[k].cur # 0 =>
            /\ inflight[k].cur \in 1..Len(uploading)
            /\ uploading[inflight[k].cur]


\* C32: a swap of the first two slots carries the uploading flag of a slot
\* with a pending upload along with the slot, and the response of an upload
\* whose slot was moved by a swap fills that slot at the index where it sits
\* now, not the slot that took its old index.
C32_SwapKeepsUploadState ==
    [][/\ last'.op = "swap" =>
             \A k \in 1..Len(inflight) :
                 inflight[k].cur # 0 =>
                     uploading'[inflight'[k].cur] = uploading[inflight[k].cur]
       /\ (/\ last'.op = "uploadOk" /\ ~last'.stale
           /\ last'.cur \notin {0, last'.index}) =>
             /\ photos'[last'.cur] # Null
             /\ photos'[last'.cur].url = last'.url
             /\ photos'[last'.cur].name = fileName(last'.file)
             /\ photos'[last'.index] = photos[last'.index]]_vars


\* C33: in every reachable state there are exactly as many uploading flags
\* as photo slots, whatever the interleaving of adding and removing slots,
\* swapping the first two, and uploads starting and completing.
C33_FlagsMatchSlots == Len(uploading) = Len(photos)

\* a slot was taken out of three while an upload was in flight
C33_Witness ==
    /\ last.op = "remove" /\ last.n = 3 /\ Len(inflight) = 1
    /\ Len(photos) = 2 /\ Len(uploading) = 2

C33_WitnessCompleted ==
    /\ last.op \in Resolved /\ last.stale /\ Len(photos) = 3 /\ Len(uploading) = 3

====
